---- MODULE Spec2Model ----
(***************************************************************************)
(* classnotes-buddy: model of the page components and of the remote        *)
(* backend (tables `lectures`, `lecture_files`, bucket `lecture-files`)    *)
(* they talk to.                                                           *)
(*                                                                         *)
(* Strings the code trims or searches are sequences of characters, so      *)
(* that trim() is computed.  An `await` on the backend is split into the   *)
(* step that issues the call and the step in which the call returns; the   *)
(* code between two awaits is one step.                                    *)
(***************************************************************************)
EXTENDS Integers, Sequences, FiniteSets, TLC

VARIABLES
  \* ---- remote backend ----
  lecturesTbl,      \* table `lectures`, in insertion order (row id = position)
  lectureFilesTbl,  \* table `lecture_files`
  notesTbl,         \* table `student_notes`
  bucket,           \* storage bucket `lecture-files`: objects in arrival order
  uploadsInFlight,  \* storage uploads issued and not yet returned
  calls,            \* remote calls issued by the current submit, in issue order
  \* ---- auth context ----
  user,             \* useAuth().user.id
  \* ---- LectureUpload: the multi-file version (src/unnamed/part_001) and
  \*      the audio-only version (src/src/components/teacher/LectureUpload.tsx)
  version,          \* which of the two versions of the component is built
  title, description, audioBlob, audioUrl, uploading, uploadProgress,
  uploadedFiles, transcript,   \* multi-file version only
  audioFile,                   \* audio-only version only
  \* ---- recording and speech recognition (multi-file version) ----
  isRecording, isListening,
  hasRecognition,   \* recognitionRef.current is set (the browser has the API)
  recognition,      \* the recognition session: "inactive", "active", "ending"
  startsPending,    \* startRecording calls awaiting getUserMedia
  recorder,         \* mediaRecorderRef.current: "none", "recording", "stopped"
  strayRecorders,   \* recording MediaRecorders the ref no longer points to
  stoppingRecorders,\* MediaRecorders stopped whose onstop has not run yet
  recLog,           \* final results and form resets since the transcript was
                    \* last cleared by startRecording
  chunksRef,        \* chunksRef.current: who pushed each chunk, "ref" (the
                    \* recorder in mediaRecorderRef) or "other"
  delivered,        \* non-empty chunks the recorder in the ref has delivered
  refStopPending,   \* the recorder in the ref is stopped, its onstop pending
  sub,              \* the running handleSubmit: its position and closure
  toast,            \* title of the toast the latest step showed (NULL: none)
  \* ---- which page component is mounted ----
  mounted,
  \* ---- LectureBrowser (src/src/components/student/LectureBrowser.tsx) ----
  lectures, filteredLectures, browserLoading, searchTerm,
  browserFetch,     \* fetchLectures: "idle", or "pending" while it awaits the query
  \* ---- LectureViewer (src/src/components/student/LectureViewer.tsx) ----
  lectureId,        \* the lectureId prop
  lecture, files, viewerLoading,
  viewerFetches,    \* the fetchLectureData calls awaiting their query
  viewerFetchCount, \* fetchLectureData calls made since the mount
  viewerErrors,     \* which of them (by number) ended in the catch block
  \* ---- Index (src/unnamed/part_002) and StudentDashboard (part_000) ----
  authLoading,      \* useAuth().loading
  profileRole, currentPage,
  view,             \* what Index rendered last
  stats, dashLoading,
  dashFetch,        \* fetchStats: its position and the lectures it holds
  clickedLecture    \* the lecture the student clicked last

recStateVars == <<isRecording, isListening, hasRecognition, recognition,
                  startsPending, recorder, strayRecorders, stoppingRecorders>>
chunkVars == <<chunksRef, delivered, refStopPending>>
recVars == <<recStateVars, recLog, chunkVars>>
formVars == <<title, description, uploadedFiles, audioBlob, audioUrl, transcript,
              audioFile, recVars>>
uploadVars == <<version, formVars, uploading, uploadProgress, sub>>
remoteVars == <<lecturesTbl, lectureFilesTbl, notesTbl, bucket, uploadsInFlight, calls>>
browserVars == <<lectures, filteredLectures, browserLoading, searchTerm, browserFetch>>
viewerVars == <<lectureId, lecture, files, viewerLoading, viewerFetches, viewerFetchCount,
                viewerErrors>>
indexVars == <<authLoading, profileRole, currentPage, view>>
dashVars == <<stats, dashLoading, dashFetch>>
studentVars == <<mounted, browserVars, viewerVars, indexVars, dashVars, clickedLecture>>
vars == <<remoteVars, user, uploadVars, toast, studentVars>>

----------------------------------------------------------------------------
\* Bounds

\* most files the teacher has selected at one time
MaxFiles == 2
\* most rows of `lectures` the model lets the teacher create
MaxLectures == 1
\* most chunks chunksRef.current holds
MaxChunks == 2

----------------------------------------------------------------------------
\* Values

\* null: as a string where the value is a name, as a one-element sequence
\* where it is a text or a URL, as a row without columns where it is a row,
\* and 0 where it is a lecture id
NULL == "null"
NullText == <<NULL>>
NoLecture == [id |-> 0]
NoId == 0
Users == {"t1", "t2"}
FileNames == {"f1", "f2"}
RecordedBlob == "rec"

\* texts typed into the form: empty, blank, and text with blanks around it
TextInputs == {<<>>, <<" ">>, <<" ", "a", " ">>}

RECURSIVE TrimLeft(_)
TrimLeft(s) == IF s # <<>> /\ Head(s) = " " THEN TrimLeft(Tail(s)) ELSE s

RECURSIVE TrimRight(_)
TrimRight(s) ==
  IF s # <<>> /\ s[Len(s)] = " " THEN TrimRight(SubSeq(s, 1, Len(s) - 1)) ELSE s

\* String.prototype.trim
Trim(s) == TrimRight(TrimLeft(s))

\* `x || null` on a string
OrNull(s) == IF s = <<>> THEN NullText ELSE s

RECURSIVE Gcd(_, _)
Gcd(a, b) == IF b = 0 THEN a ELSE Gcd(b, a % b)

RECURSIVE LcmUpTo(_)
LcmUpTo(n) == IF n <= 1 THEN 1 ELSE (LcmUpTo(n - 1) * n) \div Gcd(LcmUpTo(n - 1), n)

\* uploadProgress is a fraction; it is kept as an exact multiple of
\* 1/ProgressScale (n <= MaxFiles + 1 files are uploaded by one submit).
ProgressScale == LcmUpTo(MaxFiles + 1)
Percent(p) == p * ProgressScale

----------------------------------------------------------------------------
\* Remote backend (supabase client calls)

\* .from('lectures').insert(payload).select().single(): the new row gets the
\* next id; a column the payload does not name (audio_url, and transcript in
\* the audio-only version) starts as null.
InsertLecture(tbl, payload) ==
  Append(tbl, [id |-> Len(tbl) + 1,
               teacher_id |-> payload.teacher_id,
               title |-> payload.title,
               description |-> payload.description,
               transcript |-> payload.transcript,
               audio_url |-> NullText,
               status |-> payload.status])

\* .from('lectures').update({ audio_url }).eq('id', id)
UpdateAudioUrl(tbl, id, url) ==
  [k \in DOMAIN tbl |-> IF tbl[k].id = id THEN [tbl[k] EXCEPT !.audio_url = url]
                                           ELSE tbl[k]]

\* `${lecture.id}/${Date.now()}-${file.name}`: the i-th upload of a submit
\* stands for the i-th reading of the clock
ObjectPath(id, i, file) == <<id, i, file>>

\* storage.from('lecture-files').getPublicUrl(path).data.publicUrl
PublicUrl(path) == <<"public", path>>

\* The log of the remote calls of one submit: a call is entered as pending
\* when it is issued and gets its result when it returns.
Call(op, i, file) == [op |-> op, i |-> i, file |-> file, res |-> "pending"]

RECURSIVE PendingAt(_, _, _, _)
\* position of the pending call (op, i) in log, searching down from position k
PendingAt(log, op, i, k) ==
  IF k = 0 THEN 0
  ELSE IF log[k].op = op /\ log[k].i = i /\ log[k].res = "pending" THEN k
  ELSE PendingAt(log, op, i, k - 1)

Returned(log, op, i, res) ==
  LET k == PendingAt(log, op, i, Len(log))
  IN IF k = 0 THEN log ELSE [log EXCEPT ![k].res = res]

RECURSIVE UploadCalls(_, _, _)
\* the calls that upload the files at the (0-based) positions S of fileList,
\* lowest position first, starting with position k
UploadCalls(S, fileList, k) ==
  IF k >= Len(fileList) THEN <<>>
  ELSE (IF k \in S THEN <<Call("upload", k, fileList[k + 1])>> ELSE <<>>)
         \o UploadCalls(S, fileList, k + 1)

Range(f) == {f[k] : k \in DOMAIN f}

----------------------------------------------------------------------------
\* LectureUpload, multi-file version (src/unnamed/part_001)

SubIdle ==
  [pc |-> "idle", payload |-> NoLecture, title |-> <<>>, description |-> <<>>,
   transcript |-> <<>>, audioBlob |-> NULL, uploadedFiles |-> <<>>, lectureId |-> 0,
   fileUploads |-> <<>>, i |-> 0, uploadedUrls |-> <<>>]

\* variant of InsertPayload: the row is inserted as 'published'
InsertPayload_Published(u, t, d, tr) ==
  [teacher_id |-> u,
   title |-> Trim(t),
   description |-> OrNull(Trim(d)),
   transcript |-> OrNull(Trim(tr)),
   status |-> "published"]

\* the object passed to insert()
InsertPayload(u, t, d, tr) ==
  [teacher_id |-> u,
   title |-> Trim(t),
   description |-> OrNull(Trim(d)),
   transcript |-> OrNull(Trim(tr)),
   status |-> "draft"]

\* fileUploads: the recording first (if any), then the selected files
FileUploads(blob, fileList) ==
  (IF blob # NULL THEN <<blob>> ELSE <<>>) \o fileList

\* variant of ProgressAfterUpload: i in place of i + 1
ProgressAfterUpload_OffByOne(i, n) == Percent(30) + ((i * ProgressScale) \div n) * 60

\* 30 + ((i + 1) / fileUploads.length) * 60, with i counted from 0
ProgressAfterUpload(i, n) == Percent(30) + (((i + 1) * ProgressScale) \div n) * 60

\* variant of FirstUploads: every upload started at once (not awaited in turn)
FirstUploads_AllAtOnce(n) == 0..(n - 1)

\* the uploads started when the loop is entered: `for (let i = 0; ...)` awaits
\* each upload, so only that of fileUploads[0]
FirstUploads(n) == IF n > 0 THEN {0} ELSE {}

\* onChange of the title input (both versions)
setTitle(t) ==
  /\ sub.pc # "finally"
  /\ title' = t
  /\ UNCHANGED <<remoteVars, user, version, description, uploadedFiles, audioBlob,
                 audioUrl, transcript, audioFile, recVars, uploading, uploadProgress, sub>>
  /\ toast' = NULL
  /\ UNCHANGED studentVars

\* onChange of the description textarea (both versions)
setDescription(d) ==
  /\ sub.pc # "finally"
  /\ description' = d
  /\ UNCHANGED <<remoteVars, user, version, title, uploadedFiles, audioBlob,
                 audioUrl, transcript, audioFile, recVars, uploading, uploadProgress, sub>>
  /\ toast' = NULL
  /\ UNCHANGED studentVars

handleFileUpload(fileList) ==
  /\ version = "multi"
  /\ sub.pc # "finally"
  /\ Len(uploadedFiles) + Len(fileList) <= MaxFiles
  /\ IF Len(fileList) > 0
       THEN /\ uploadedFiles' = uploadedFiles \o fileList
            /\ toast' = "Files selected"
       ELSE /\ toast' = NULL
            /\ UNCHANGED uploadedFiles
  /\ UNCHANGED <<remoteVars, user, version, title, description, audioBlob, audioUrl,
                 transcript, audioFile, recVars, uploading, uploadProgress, sub>>
  /\ UNCHANGED studentVars

removeFile(index) ==
  /\ version = "multi"
  /\ sub.pc # "finally"
  /\ index \in 1..Len(uploadedFiles)
  /\ uploadedFiles' = SubSeq(uploadedFiles, 1, index - 1)
                        \o SubSeq(uploadedFiles, index + 1, Len(uploadedFiles))
  /\ UNCHANGED <<remoteVars, user, version, title, description, audioBlob, audioUrl,
                 transcript, audioFile, recVars, uploading, uploadProgress, sub>>
  /\ toast' = NULL
  /\ UNCHANGED studentVars

\* handleSubmit up to its first await.  The submit button is disabled while
\* uploading, so no second handleSubmit starts while one is running.
handleSubmit ==
  /\ version = "multi"
  /\ sub.pc = "idle"
  /\ ~uploading
  /\ IF Trim(title) = <<>>
       THEN /\ toast' = "Title required"
            /\ UNCHANGED <<remoteVars, uploading, uploadProgress, sub>>
       ELSE IF Len(uploadedFiles) = 0 /\ audioBlob = NULL
       THEN /\ toast' = "Content required"
            /\ UNCHANGED <<remoteVars, uploading, uploadProgress, sub>>
       ELSE /\ Len(lecturesTbl) < MaxLectures
            /\ uploading' = TRUE
            /\ uploadProgress' = 0
            /\ sub' = [SubIdle EXCEPT
                         !.pc = "insert",
                         !.payload = InsertPayload(user, title, description, transcript),
                         !.title = title,
                         !.description = description,
                         !.transcript = transcript,
                         !.audioBlob = audioBlob,
                         !.uploadedFiles = uploadedFiles]
            /\ calls' = <<Call("insert", 0, NULL)>>
            /\ toast' = NULL
            /\ UNCHANGED <<lecturesTbl, lectureFilesTbl, notesTbl, bucket, uploadsInFlight>>
  /\ UNCHANGED <<user, version, formVars>>
  /\ UNCHANGED studentVars

\* variant of SubmitCatch: the error is swallowed without a toast
SubmitCatch_Silent ==
  /\ toast' = NULL
  /\ sub' = [sub EXCEPT !.pc = "finally"]

\* catch (error) { toast 'Upload failed' }
SubmitCatch ==
  /\ toast' = "Upload failed"
  /\ sub' = [sub EXCEPT !.pc = "finally"]

\* if (lectureError) throw lectureError
InsertFailed ==
  /\ calls' = Returned(calls, "insert", 0, "error")
  /\ SubmitCatch
  /\ UNCHANGED <<lecturesTbl, lectureFilesTbl, notesTbl, bucket, uploadsInFlight, uploadProgress>>

\* the insert returned a row: setUploadProgress(30), build fileUploads, enter
\* the upload loop
InsertSucceeded ==
  LET fileList == FileUploads(sub.audioBlob, sub.uploadedFiles)
      first == FirstUploads(Len(fileList))
  IN /\ lecturesTbl' = InsertLecture(lecturesTbl, sub.payload)
     /\ uploadProgress' = Percent(30)
     /\ sub' = [sub EXCEPT !.pc = IF Len(fileList) > 0 THEN "upload" ELSE "update",
                           !.lectureId = Len(lecturesTbl) + 1,
                           !.fileUploads = fileList,
                           !.i = 0]
     /\ uploadsInFlight' = uploadsInFlight \cup first
     /\ calls' = Returned(calls, "insert", 0, "ok") \o UploadCalls(first, fileList, 0)
     /\ toast' = NULL
     /\ UNCHANGED <<lectureFilesTbl, notesTbl, bucket>>

\* handleSubmit resumes after `await ...insert(...).select().single()`
handleSubmit_insertReturned ==
  /\ version = "multi"
  /\ sub.pc = "insert"
  /\ \/ InsertFailed
     \/ InsertSucceeded
  /\ UNCHANGED <<user, version, formVars, uploading>>
  /\ UNCHANGED studentVars

\* the loop goes on after upload k: uploadedUrls and the progress are set,
\* then the next upload is started or, after the last one, getPublicUrl and
\* the audio_url update
LoopContinues(k, urls, log) ==
  LET n == Len(sub.fileUploads)
  IN /\ uploadProgress' = ProgressAfterUpload(k, n)
     /\ IF k + 1 < n
          THEN /\ sub' = [sub EXCEPT !.i = k + 1, !.uploadedUrls = urls]
               /\ uploadsInFlight' = (uploadsInFlight \ {k}) \cup {k + 1}
               /\ calls' = Append(log, Call("upload", k + 1, sub.fileUploads[k + 2]))
          ELSE /\ sub' = [sub EXCEPT !.pc = "update", !.i = k + 1, !.uploadedUrls = urls]
               /\ uploadsInFlight' = uploadsInFlight \ {k}
               /\ calls' = IF Len(urls) > 0 THEN Append(log, Call("update", 0, NULL))
                                           ELSE log
     /\ toast' = NULL

\* variant of UploadFailed: the error is not thrown and the loop goes on
UploadFailed_Swallowed(k) ==
  /\ LoopContinues(k, Append(sub.uploadedUrls,
                             ObjectPath(sub.lectureId, k, sub.fileUploads[k + 1])),
                   Returned(calls, "upload", k, "error"))
  /\ UNCHANGED <<lecturesTbl, lectureFilesTbl, notesTbl, bucket>>

\* variant of UploadFailed: the failed upload is issued again
UploadFailed_Retried(k) ==
  /\ calls' = Append(Returned(calls, "upload", k, "error"),
                     Call("upload", k, sub.fileUploads[k + 1]))
  /\ UNCHANGED <<lecturesTbl, lectureFilesTbl, notesTbl, bucket, uploadsInFlight,
                 uploadProgress, sub>>
  /\ toast' = NULL

\* if (uploadError) throw uploadError
UploadFailed(k) ==
  /\ uploadsInFlight' = uploadsInFlight \ {k}
  /\ calls' = Returned(calls, "upload", k, "error")
  /\ SubmitCatch
  /\ UNCHANGED <<lecturesTbl, lectureFilesTbl, notesTbl, bucket, uploadProgress>>

\* upload k stored its object
UploadSucceeded(k) ==
  LET path == ObjectPath(sub.lectureId, k, sub.fileUploads[k + 1])
  IN /\ bucket' = Append(bucket, path)
     /\ LoopContinues(k, Append(sub.uploadedUrls, path),
                      Returned(calls, "upload", k, "ok"))
     /\ UNCHANGED <<lecturesTbl, lectureFilesTbl, notesTbl>>

\* handleSubmit resumes after `await supabase.storage...upload(...)`
handleSubmit_uploadReturned ==
  /\ version = "multi"
  /\ sub.pc = "upload"
  /\ \E k \in uploadsInFlight :
       \/ UploadFailed(k)
       \/ UploadSucceeded(k)
  /\ UNCHANGED <<user, version, formVars, uploading>>
  /\ UNCHANGED studentVars

\* variant of ResetForm: setTranscript('') left out
ResetForm_KeepsTranscript ==
  /\ title' = <<>>
  /\ description' = <<>>
  /\ uploadedFiles' = <<>>
  /\ audioBlob' = NULL
  /\ audioUrl' = NULL
  /\ recLog' = Append(recLog, [kind |-> "reset", text |-> <<>>])
  /\ UNCHANGED <<transcript, audioFile, recStateVars, chunkVars>>

\* the form reset after the success toast
ResetForm ==
  /\ title' = <<>>
  /\ description' = <<>>
  /\ uploadedFiles' = <<>>
  /\ audioBlob' = NULL
  /\ audioUrl' = NULL
  /\ transcript' = <<>>
  /\ recLog' = Append(recLog, [kind |-> "reset", text |-> <<>>])
  /\ UNCHANGED <<audioFile, recStateVars, chunkVars>>

\* handleSubmit resumes after `await ...update({ audio_url })...` (the result
\* of the update is not looked at): setUploadProgress(100), the success toast
\* and the form reset.
handleSubmit_updateReturned ==
  /\ version = "multi"
  /\ sub.pc = "update"
  /\ \E ok \in BOOLEAN :
       /\ lecturesTbl' = IF ok /\ Len(sub.uploadedUrls) > 0
                           THEN UpdateAudioUrl(lecturesTbl, sub.lectureId,
                                               PublicUrl(sub.uploadedUrls[1]))
                           ELSE lecturesTbl
       /\ calls' = Returned(calls, "update", 0, IF ok THEN "ok" ELSE "error")
  /\ uploadProgress' = Percent(100)
  /\ toast' = "Lecture uploaded successfully!"
  /\ ResetForm
  /\ sub' = [sub EXCEPT !.pc = "finally"]
  /\ UNCHANGED <<lectureFilesTbl, notesTbl, bucket, uploadsInFlight, user, version, uploading>>
  /\ UNCHANGED studentVars

\* finally { setUploading(false); setUploadProgress(0) }; the log of the
\* submit's calls is closed
handleSubmit_finally ==
  /\ version = "multi"
  /\ sub.pc = "finally"
  /\ uploading' = FALSE
  /\ uploadProgress' = 0
  /\ sub' = SubIdle
  /\ calls' = <<>>
  /\ toast' = NULL
  /\ UNCHANGED <<lecturesTbl, lectureFilesTbl, notesTbl, bucket, uploadsInFlight, user,
                 version, formVars>>
  /\ UNCHANGED studentVars

----------------------------------------------------------------------------
\* Recording and speech recognition of the multi-file LectureUpload
\* (src/unnamed/part_001, lines 54-161)

\* most MediaRecorders alive at one time: awaited, recording without a
\* reference, or stopped with onstop still to run
MaxRecorders == 2
\* most final results the transcript holds
MaxFinals == 2

\* one recognition result: its first alternative's text and isFinal
Result(text, final) == [transcript |-> text, isFinal |-> final]

\* the results of one onresult event, from event.resultIndex on
ResultEvents ==
  { <<Result(<<"a">>, TRUE)>>,
    <<Result(<<"b">>, FALSE)>>,
    <<Result(<<"b">>, FALSE), Result(<<"a">>, TRUE)>>,
    <<Result(<<"a">>, TRUE), Result(<<"b">>, TRUE)>> }

\* variant of FinalTranscript: interim results are appended too
RECURSIVE FinalTranscript_WithInterim(_)
FinalTranscript_WithInterim(results) ==
  IF results = <<>> THEN <<>>
  ELSE (Head(results).transcript \o <<" ">>) \o FinalTranscript_WithInterim(Tail(results))

\* finalTranscript of onresult: each final result's text followed by ' '
RECURSIVE FinalTranscript(_)
FinalTranscript(results) ==
  IF results = <<>> THEN <<>>
  ELSE (IF Head(results).isFinal THEN Head(results).transcript \o <<" ">> ELSE <<>>)
         \o FinalTranscript(Tail(results))

\* the final results the log holds
Finals(log) == SelectSeq(log, LAMBDA e : e.kind = "final")

\* the final results of one event as log entries
FinalEntries(results) ==
  LET finals == SelectSeq(results, LAMBDA r : r.isFinal)
  IN [k \in 1..Len(finals) |->
        [kind |-> "final", text |-> finals[k].transcript \o <<" ">>]]

\* click on 'Start Recording' (shown while isRecording is false):
\* startRecording up to `await getUserMedia`
startRecording ==
  /\ version = "multi" /\ sub.pc # "finally"
  /\ ~isRecording
  /\ startsPending + strayRecorders + stoppingRecorders
       + (IF recorder = "recording" THEN 1 ELSE 0) < MaxRecorders
  /\ startsPending' = startsPending + 1
  /\ toast' = NULL
  /\ UNCHANGED <<isRecording, isListening, hasRecognition, recognition, recorder,
                 strayRecorders, stoppingRecorders, recLog, chunkVars>>
  /\ UNCHANGED <<remoteVars, user, version, title, description, uploadedFiles, audioBlob,
                 audioUrl, transcript, audioFile, uploading, uploadProgress, sub>>
  /\ UNCHANGED studentVars

\* recognitionRef.current.start() and the lines after it: start() throws
\* InvalidStateError while the session of an earlier start() has not ended
StartRecognition ==
  IF ~hasRecognition
    THEN /\ toast' = "Recording started"
         /\ UNCHANGED <<isListening, recognition, transcript, recLog>>
    ELSE IF recognition = "inactive"
    THEN /\ recognition' = "active"
         /\ isListening' = TRUE
         /\ transcript' = <<>>
         /\ recLog' = <<>>
         /\ toast' = "Recording started"
    ELSE /\ toast' = "Recording failed"
         /\ UNCHANGED <<isListening, recognition, transcript, recLog>>

\* startRecording resumes after getUserMedia: on a rejection (or when the
\* MediaRecorder cannot be made) the catch block; else the new MediaRecorder
\* replaces the one in the ref and is started, then the recognition
startRecording_resolved ==
  /\ version = "multi" /\ sub.pc # "finally"
  /\ startsPending > 0
  /\ startsPending' = startsPending - 1
  /\ \/ /\ toast' = "Recording failed"
        /\ UNCHANGED <<isRecording, isListening, recognition, recorder, strayRecorders,
                       transcript, recLog, chunkVars>>
     \/ /\ recorder' = "recording"
        /\ strayRecorders' = strayRecorders + (IF recorder = "recording" THEN 1 ELSE 0)
        /\ chunksRef' = <<>>
        /\ delivered' = 0
        /\ refStopPending' = FALSE
        /\ isRecording' = TRUE
        /\ StartRecognition
  /\ UNCHANGED <<hasRecognition, stoppingRecorders>>
  /\ UNCHANGED <<remoteVars, user, version, title, description, uploadedFiles, audioBlob,
                 audioUrl, audioFile, uploading, uploadProgress, sub>>
  /\ UNCHANGED studentVars

\* click on 'Stop Recording' (shown while isRecording is true)
stopRecording ==
  /\ version = "multi" /\ sub.pc # "finally"
  /\ isRecording /\ recorder = "recording"
  /\ recorder' = "stopped"
  /\ stoppingRecorders' = stoppingRecorders + 1
  /\ isRecording' = FALSE
  /\ IF hasRecognition /\ isListening
       THEN /\ recognition' = IF recognition = "active" THEN "ending" ELSE recognition
            /\ isListening' = FALSE
       ELSE UNCHANGED <<recognition, isListening>>
  /\ toast' = "Recording stopped"
  /\ refStopPending' = TRUE
  /\ UNCHANGED <<hasRecognition, startsPending, strayRecorders, recLog, chunksRef,
                 delivered>>
  /\ UNCHANGED <<remoteVars, user, version, title, description, uploadedFiles, audioBlob,
                 audioUrl, transcript, audioFile, uploading, uploadProgress, sub>>
  /\ UNCHANGED studentVars

\* mediaRecorder.onstop of a stopped recorder, the one in the ref or one the
\* ref held before: the blob, made of chunksRef.current, and its object URL
mediaRecorder_onstop ==
  /\ version = "multi" /\ sub.pc # "finally"
  /\ stoppingRecorders > 0
  /\ stoppingRecorders' = stoppingRecorders - 1
  /\ \/ refStopPending /\ refStopPending' = FALSE
     \/ /\ stoppingRecorders > (IF refStopPending THEN 1 ELSE 0)
        /\ UNCHANGED refStopPending
  /\ audioBlob' = RecordedBlob
  /\ audioUrl' = "blob:rec"
  /\ toast' = NULL
  /\ UNCHANGED <<isRecording, isListening, hasRecognition, recognition, startsPending,
                 recorder, strayRecorders, recLog, chunksRef, delivered>>
  /\ UNCHANGED <<remoteVars, user, version, title, description, uploadedFiles,
                 transcript, audioFile, uploading, uploadProgress, sub>>
  /\ UNCHANGED studentVars

\* mediaRecorder.ondataavailable of a recorder: `if (event.data.size > 0)
\* chunksRef.current.push(event.data)`.  The recorder in the ref delivers
\* data while it records and once more after stop(), before its onstop; the
\* other recorders are those the ref held before.
mediaRecorder_ondataavailable(own, size) ==
  /\ version = "multi" /\ sub.pc # "finally"
  /\ IF own
       THEN recorder = "recording" \/ refStopPending
       ELSE strayRecorders + stoppingRecorders > (IF refStopPending THEN 1 ELSE 0)
  /\ Len(chunksRef) < MaxChunks
  /\ IF size > 0
       THEN /\ chunksRef' = Append(chunksRef, IF own THEN "ref" ELSE "other")
            /\ delivered' = IF own THEN delivered + 1 ELSE delivered
       ELSE UNCHANGED <<chunksRef, delivered>>
  /\ toast' = NULL
  /\ UNCHANGED <<recStateVars, recLog, refStopPending>>
  /\ UNCHANGED <<remoteVars, user, version, title, description, uploadedFiles, audioBlob,
                 audioUrl, transcript, audioFile, uploading, uploadProgress, sub>>
  /\ UNCHANGED studentVars

\* recognition.onresult: results arrive while the session is active and, after
\* stop(), until it has ended
recognition_onresult(results) ==
  /\ version = "multi" /\ sub.pc # "finally"
  /\ recognition \in {"active", "ending"}
  /\ LET finalTranscript == FinalTranscript(results)
     IN IF finalTranscript # <<>>
          THEN /\ Len(Finals(recLog)) + Len(FinalEntries(results)) <= MaxFinals
               /\ transcript' = transcript \o finalTranscript
               /\ recLog' = recLog \o FinalEntries(results)
          ELSE UNCHANGED <<transcript, recLog>>
  /\ toast' = NULL
  /\ UNCHANGED <<recStateVars, chunkVars>>
  /\ UNCHANGED <<remoteVars, user, version, title, description, uploadedFiles, audioBlob,
                 audioUrl, audioFile, uploading, uploadProgress, sub>>
  /\ UNCHANGED studentVars

\* recognition.onerror: the session ends after an error
recognition_onerror ==
  /\ version = "multi" /\ sub.pc # "finally"
  /\ recognition = "active"
  /\ recognition' = "ending"
  /\ isListening' = FALSE
  /\ toast' = NULL
  /\ UNCHANGED <<isRecording, hasRecognition, startsPending, recorder, strayRecorders,
                 stoppingRecorders, recLog, chunkVars>>
  /\ UNCHANGED <<remoteVars, user, version, title, description, uploadedFiles, audioBlob,
                 audioUrl, transcript, audioFile, uploading, uploadProgress, sub>>
  /\ UNCHANGED studentVars

\* recognition.onend: after stop(), after an error, or when the browser ends
\* the session by itself
recognition_onend ==
  /\ version = "multi" /\ sub.pc # "finally"
  /\ recognition \in {"active", "ending"}
  /\ recognition' = "inactive"
  /\ isListening' = FALSE
  /\ toast' = NULL
  /\ UNCHANGED <<isRecording, hasRecognition, startsPending, recorder, strayRecorders,
                 stoppingRecorders, recLog, chunkVars>>
  /\ UNCHANGED <<remoteVars, user, version, title, description, uploadedFiles, audioBlob,
                 audioUrl, transcript, audioFile, uploading, uploadProgress, sub>>
  /\ UNCHANGED studentVars

----------------------------------------------------------------------------
\* LectureUpload, audio-only version (src/src/components/teacher/LectureUpload.tsx)

\* what one change event of the file input (accept="audio/*") can carry: no
\* file, an audio file, or a file of another type
AudioSelections == {NULL, "a1.mp3", "f1"}
IsAudioType(file) == file = "a1.mp3"

handleFileUploadAudio(file) ==
  /\ version = "audio"
  /\ sub.pc # "finally"
  /\ IF file = NULL
       THEN /\ toast' = NULL
            /\ UNCHANGED <<audioFile, audioUrl, audioBlob>>
       ELSE IF IsAudioType(file)
       THEN /\ audioFile' = file
            /\ audioUrl' = "blob:a1.mp3"
            /\ audioBlob' = NULL
            /\ toast' = "File selected"
       ELSE /\ toast' = "Invalid file type"
            /\ UNCHANGED <<audioFile, audioUrl, audioBlob>>
  /\ UNCHANGED <<remoteVars, user, version, title, description, uploadedFiles,
                 transcript, recVars, uploading, uploadProgress, sub>>
  /\ UNCHANGED studentVars

\* the object passed to insert(): this version names no transcript
InsertPayloadAudio(u, t, d) ==
  [teacher_id |-> u,
   title |-> Trim(t),
   description |-> OrNull(Trim(d)),
   transcript |-> NullText,
   status |-> "draft"]

\* variant of handleSubmitAudio: setUploading(true) and setUploadProgress(0)
\* moved above the check for audio
handleSubmitAudio_UploadingFirst ==
  /\ version = "audio"
  /\ sub.pc = "idle"
  /\ ~uploading
  /\ IF Trim(title) = <<>>
       THEN /\ toast' = "Title required"
            /\ UNCHANGED <<remoteVars, uploading, uploadProgress, sub>>
       ELSE IF audioFile = NULL /\ audioBlob = NULL
       THEN /\ toast' = "Audio required"
            /\ uploading' = TRUE
            /\ uploadProgress' = 0
            /\ UNCHANGED <<remoteVars, sub>>
       ELSE /\ Len(lecturesTbl) < MaxLectures
            /\ uploading' = TRUE
            /\ uploadProgress' = 0
            /\ sub' = [SubIdle EXCEPT
                         !.pc = "insert",
                         !.payload = InsertPayloadAudio(user, title, description),
                         !.title = title,
                         !.description = description,
                         !.audioBlob = audioBlob]
            /\ calls' = <<Call("insert", 0, NULL)>>
            /\ toast' = NULL
            /\ UNCHANGED <<lecturesTbl, lectureFilesTbl, notesTbl, bucket, uploadsInFlight>>
  /\ UNCHANGED <<user, version, formVars>>
  /\ UNCHANGED studentVars

\* handleSubmit up to its await
handleSubmitAudio ==
  /\ version = "audio"
  /\ sub.pc = "idle"
  /\ ~uploading
  /\ IF Trim(title) = <<>>
       THEN /\ toast' = "Title required"
            /\ UNCHANGED <<remoteVars, uploading, uploadProgress, sub>>
       ELSE IF audioFile = NULL /\ audioBlob = NULL
       THEN /\ toast' = "Audio required"
            /\ UNCHANGED <<remoteVars, uploading, uploadProgress, sub>>
       ELSE /\ Len(lecturesTbl) < MaxLectures
            /\ uploading' = TRUE
            /\ uploadProgress' = 0
            /\ sub' = [SubIdle EXCEPT
                         !.pc = "insert",
                         !.payload = InsertPayloadAudio(user, title, description),
                         !.title = title,
                         !.description = description,
                         !.audioBlob = audioBlob]
            /\ calls' = <<Call("insert", 0, NULL)>>
            /\ toast' = NULL
            /\ UNCHANGED <<lecturesTbl, lectureFilesTbl, notesTbl, bucket, uploadsInFlight>>
  /\ UNCHANGED <<user, version, formVars>>
  /\ UNCHANGED studentVars

\* handleSubmit resumes after the insert: on an error the catch block; else
\* setUploadProgress(50), setUploadProgress(100), the success toast and the
\* form reset
handleSubmitAudio_insertReturned ==
  /\ version = "audio"
  /\ sub.pc = "insert"
  /\ \/ /\ calls' = Returned(calls, "insert", 0, "error")
        /\ SubmitCatch
        /\ UNCHANGED <<lecturesTbl, uploadProgress, formVars>>
     \/ /\ calls' = Returned(calls, "insert", 0, "ok")
        /\ lecturesTbl' = InsertLecture(lecturesTbl, sub.payload)
        /\ uploadProgress' = Percent(100)
        /\ toast' = "Lecture uploaded successfully!"
        /\ title' = <<>>
        /\ description' = <<>>
        /\ audioFile' = NULL
        /\ audioBlob' = NULL
        /\ audioUrl' = NULL
        /\ UNCHANGED <<uploadedFiles, transcript, recVars>>
        /\ sub' = [sub EXCEPT !.pc = "finally", !.lectureId = Len(lecturesTbl) + 1]
  /\ UNCHANGED <<lectureFilesTbl, notesTbl, bucket, uploadsInFlight, user, version, uploading>>
  /\ UNCHANGED studentVars

\* finally { setUploading(false); setUploadProgress(0) }; the log of the
\* submit's calls is closed
handleSubmitAudio_finally ==
  /\ version = "audio"
  /\ sub.pc = "finally"
  /\ uploading' = FALSE
  /\ uploadProgress' = 0
  /\ sub' = SubIdle
  /\ calls' = <<>>
  /\ toast' = NULL
  /\ UNCHANGED <<lecturesTbl, lectureFilesTbl, notesTbl, bucket, uploadsInFlight, user,
                 version, formVars>>
  /\ UNCHANGED studentVars

\* file lists one change event of the file input can carry
FileSelections == {<<f>> : f \in FileNames} \cup {<<"f1", "f2">>}
----------------------------------------------------------------------------
\* The backend as the student pages find it

\* most rows of `lectures` the backend holds when a student page is mounted
MaxRemoteRows == 2

\* rows other sessions have created: status, title, description and audio_url
\* vary; the id of a row is its position in the table
RowChoices ==
  { [teacher_id |-> "t1", title |-> <<"A">>, description |-> NullText,
     transcript |-> NullText, audio_url |-> NullText, status |-> "published"],
    [teacher_id |-> "t1", title |-> <<"b">>, description |-> <<"a", "B">>,
     transcript |-> <<"a">>, audio_url |-> <<"public", <<0, 0, "rec">>>>,
     status |-> "published"],
    [teacher_id |-> "t2", title |-> <<"a">>, description |-> NullText,
     transcript |-> NullText, audio_url |-> NullText, status |-> "draft"] }

WithIds(rows) ==
  [k \in DOMAIN rows |->
     [id |-> k, teacher_id |-> rows[k].teacher_id, title |-> rows[k].title,
      description |-> rows[k].description, transcript |-> rows[k].transcript,
      audio_url |-> rows[k].audio_url, status |-> rows[k].status]]

InitialTables ==
  UNION { {WithIds(rows) : rows \in [1..n -> RowChoices]} : n \in 0..MaxRemoteRows }

\* a lecture_files row of lecture 1
FileRow ==
  [id |-> 1, lecture_id |-> 1, file_name |-> "f1", file_path |-> <<1, 0, "f1">>,
   mime_type |-> "application/pdf", is_primary |-> TRUE]

InitRemoteStudent ==
  /\ lecturesTbl \in InitialTables
  /\ lectureFilesTbl \in {{}, {FileRow}}
  /\ notesTbl \in {{}, {[id |-> 1, student_id |-> "s1"]},
                   {[id |-> 1, student_id |-> "s1"], [id |-> 2, student_id |-> "s2"]}}
  /\ bucket = <<>>
  /\ uploadsInFlight = {}
  /\ calls = <<>>

RECURSIVE Newest(_, _)
\* the rows of tbl whose status is in statuses, newest (last inserted) first
Newest(tbl, statuses) ==
  IF tbl = <<>> THEN <<>>
  ELSE (IF tbl[Len(tbl)].status \in statuses THEN <<tbl[Len(tbl)]>> ELSE <<>>)
         \o Newest(SubSeq(tbl, 1, Len(tbl) - 1), statuses)

\* variant of SelectPublished: without .eq('status', 'published')
SelectPublished_NoFilter(tbl) == Newest(tbl, {"published", "draft"})

\* .from('lectures').select('*').eq('status', 'published')
\*    .order('created_at', { ascending: false })
SelectPublished(tbl) == Newest(tbl, {"published"})

\* .from('lectures').select('*').eq('id', id).eq('status', 'published'): the
\* rows .single() chooses from
SelectLecture(tbl, id) ==
  {tbl[k] : k \in {j \in DOMAIN tbl : tbl[j].id = id /\ tbl[j].status = "published"}}

----------------------------------------------------------------------------
\* LectureBrowser (src/src/components/student/LectureBrowser.tsx)

\* String.prototype.toLowerCase on the letters used
LowerChar(c) == IF c = "A" THEN "a" ELSE IF c = "B" THEN "b" ELSE c
ToLowerCase(str) == [k \in DOMAIN str |-> LowerChar(str[k])]

\* String.prototype.includes
Includes(str, part) ==
  \E k \in 0..(Len(str) - Len(part)) : SubSeq(str, k + 1, k + Len(part)) = part

\* variant of Matches: the letters compared as they are
Matches_CaseSensitive(row, term) ==
  \/ Includes(row.title, term)
  \/ (row.description # NullText /\ row.description # <<>>
        /\ Includes(row.description, term))

Matches(row, term) ==
  \/ Includes(ToLowerCase(row.title), ToLowerCase(term))
  \/ (row.description # NullText /\ row.description # <<>>
        /\ Includes(ToLowerCase(row.description), ToLowerCase(term)))

RECURSIVE FilterRows(_, _)
\* Array.prototype.filter with the search predicate
FilterRows(rows, term) ==
  IF rows = <<>> THEN <<>>
  ELSE (IF Matches(Head(rows), term) THEN <<Head(rows)>> ELSE <<>>)
         \o FilterRows(Tail(rows), term)

\* filterLectures: what it sets filteredLectures to
filterLectures(rows, term) ==
  IF Trim(term) = <<>> THEN rows ELSE FilterRows(rows, term)

SearchInputs == {<<>>, <<" ">>, <<"a">>, <<"B">>}

\* variant of fetchLectures_returned: setLoading(false) at the end of the try
\* block in place of the finally block
fetchLectures_returned_NoFinally ==
  /\ mounted = "LectureBrowser"
  /\ browserFetch = "pending"
  /\ \/ /\ lectures' = SelectPublished(lecturesTbl)
        /\ filteredLectures' = filterLectures(lectures', searchTerm)
        /\ toast' = NULL
        /\ browserLoading' = FALSE
     \/ /\ toast' = "Error"
        /\ UNCHANGED <<lectures, filteredLectures, browserLoading>>
  /\ browserFetch' = "idle"
  /\ UNCHANGED <<remoteVars, user, version, formVars, uploading, uploadProgress, sub,
                 mounted, searchTerm, viewerVars, indexVars, dashVars, clickedLecture>>

\* fetchLectures resumes after its query; the effect on [lectures, searchTerm]
\* then runs filterLectures
fetchLectures_returned ==
  /\ mounted = "LectureBrowser"
  /\ browserFetch = "pending"
  /\ \/ /\ lectures' = SelectPublished(lecturesTbl)
        /\ filteredLectures' = filterLectures(lectures', searchTerm)
        /\ toast' = NULL
     \/ /\ toast' = "Error"
        /\ UNCHANGED <<lectures, filteredLectures>>
  /\ browserLoading' = FALSE
  /\ browserFetch' = "idle"
  /\ UNCHANGED <<remoteVars, user, version, formVars, uploading, uploadProgress, sub,
                 mounted, searchTerm, viewerVars, indexVars, dashVars, clickedLecture>>

\* onChange of the search input (rendered once loading is false), followed by
\* the effect on [lectures, searchTerm]
setSearchTerm(term) ==
  /\ mounted = "LectureBrowser"
  /\ ~browserLoading
  /\ searchTerm' = term
  /\ filteredLectures' = filterLectures(lectures, term)
  /\ toast' = NULL
  /\ UNCHANGED <<remoteVars, user, uploadVars, mounted, lectures, browserLoading,
                 browserFetch, viewerVars, indexVars, dashVars, clickedLecture>>

\* variant of handleLectureClick: the click also writes the rows' status
handleLectureClick_Publishes(id) ==
  /\ mounted = "LectureBrowser"
  /\ ~browserLoading
  /\ \E k \in DOMAIN filteredLectures : filteredLectures[k].id = id
  /\ clickedLecture' = id
  /\ toast' = "Coming Soon"
  /\ lecturesTbl' = [k \in DOMAIN lecturesTbl |->
                       [lecturesTbl[k] EXCEPT !.status = "published"]]
  /\ UNCHANGED <<lectureFilesTbl, notesTbl, bucket, uploadsInFlight, calls, user,
                 version, formVars, uploading, uploadProgress, sub,
                 mounted, browserVars, viewerVars, indexVars, dashVars>>

\* click on the card of a listed lecture
handleLectureClick(id) ==
  /\ mounted = "LectureBrowser"
  /\ ~browserLoading
  /\ \E k \in DOMAIN filteredLectures : filteredLectures[k].id = id
  /\ clickedLecture' = id
  /\ toast' = "Coming Soon"
  /\ UNCHANGED <<remoteVars, user, version, formVars, uploading, uploadProgress, sub,
                 mounted, browserVars, viewerVars, indexVars, dashVars>>

----------------------------------------------------------------------------
\* LectureViewer (src/src/components/student/LectureViewer.tsx)

\* most fetchLectureData calls the model lets one mounted viewer make
MaxViewerFetches == 3

LectureIds == 1..(MaxRemoteRows + 1)

\* fetchLectureData up to its await, with the lectureId of this render
IssueViewerFetch(id) ==
  /\ viewerFetchCount' = viewerFetchCount + 1
  /\ viewerFetches' = viewerFetches \cup {[lectureId |-> id, n |-> viewerFetchCount + 1]}

\* the parent renders the viewer with another lectureId: the effect on
\* [lectureId] calls fetchLectureData
lectureIdChanged(id) ==
  /\ mounted = "LectureViewer"
  /\ id # lectureId
  /\ viewerFetchCount < MaxViewerFetches
  /\ lectureId' = id
  /\ IssueViewerFetch(id)
  /\ toast' = NULL
  /\ UNCHANGED <<remoteVars, user, uploadVars, mounted, lecture, files, viewerLoading,
                 viewerErrors, browserVars, indexVars, dashVars, clickedLecture>>

\* fetchLectureData resumes after its query: .single() gives the row when
\* exactly one row is selected and an error otherwise; the call itself may fail
fetchLectureData_returned(f) ==
  /\ mounted = "LectureViewer"
  /\ f \in viewerFetches
  /\ viewerFetches' = viewerFetches \ {f}
  /\ \/ /\ \E row \in SelectLecture(lecturesTbl, f.lectureId) :
             /\ Cardinality(SelectLecture(lecturesTbl, f.lectureId)) = 1
             /\ lecture' = row
        /\ toast' = NULL
        /\ UNCHANGED viewerErrors
     \/ /\ toast' = "Error"
        /\ viewerErrors' = viewerErrors \cup {f.n}
        /\ UNCHANGED lecture
  /\ viewerLoading' = FALSE
  /\ UNCHANGED <<remoteVars, user, version, formVars, uploading, uploadProgress, sub,
                 mounted, lectureId, files, viewerFetchCount,
                 browserVars, indexVars, dashVars, clickedLecture>>

\* what LectureViewer renders
ViewerView ==
  IF viewerLoading THEN "skeleton"
  ELSE IF lecture = NoLecture THEN "Lecture Not Found"
  ELSE "lecture"

\* the sections of the content tab
ShowsFiles == ViewerView = "lecture" /\ Len(files) > 0
ShowsNoContent == ViewerView = "lecture" /\ Len(files) = 0 /\ lecture.audio_url = NullText

----------------------------------------------------------------------------
\* Index (src/unnamed/part_002) and StudentDashboard (src/unnamed/part_000)

\* page names handlePageChange is called with
Pages == {"dashboard", "upload", "lectures", "notes", "settings", "lecture"}

\* variant of renderPageContent: the upload page without the role check
renderPageContent_UploadForAll(role, page) ==
  IF page = "upload" THEN "LectureUpload"
  ELSE IF role = "teacher"
    THEN CASE page = "lectures" -> "My Lectures"
           [] page = "settings" -> "Settings"
           [] OTHER             -> "TeacherDashboard"
    ELSE CASE page = "lectures" -> "Available Lectures"
           [] page = "notes"    -> "My Notes"
           [] page = "settings" -> "Settings"
           [] OTHER             -> "StudentDashboard"

\* renderPageContent
renderPageContent(role, page) ==
  IF role = "teacher"
    THEN CASE page = "upload"   -> "LectureUpload"
           [] page = "lectures" -> "My Lectures"
           [] page = "settings" -> "Settings"
           [] OTHER             -> "TeacherDashboard"
    ELSE CASE page = "lectures" -> "Available Lectures"
           [] page = "notes"    -> "My Notes"
           [] page = "settings" -> "Settings"
           [] OTHER             -> "StudentDashboard"

\* variant of Render: the role is looked at before the user
Render_RoleBeforeUser(loading, u, role, page) ==
  IF loading THEN "Spinner"
  ELSE IF role # NULL THEN renderPageContent(role, page)
  ELSE IF u = NULL THEN "AuthForm"
  ELSE "RoleSelection"

\* what Index returns: the spinner while auth is loading, AuthForm without a
\* user, RoleSelection without a role, else the page inside AppLayout
Render(loading, u, role, page) ==
  IF loading THEN "Spinner"
  ELSE IF u = NULL THEN "AuthForm"
  ELSE IF role = NULL THEN "RoleSelection"
  ELSE renderPageContent(role, page)

\* the views that are not a page inside AppLayout
GateViews == {"Spinner", "AuthForm", "RoleSelection"}

ZeroStats ==
  [available_lectures |-> 0, completed_notes |-> 0,
   recent_lectures |-> <<>>, recommended_lectures |-> <<>>]

DashFetchIdle == [pc |-> "idle", lectures |-> <<>>]

\* Array.prototype.slice(0, n)
Slice(rows, n) == SubSeq(rows, 1, IF Len(rows) < n THEN Len(rows) ELSE n)

\* StudentDashboard is mounted (its state is fresh and the effect on [user]
\* calls fetchStats), unmounted, or kept, as the page Index renders changes
DashboardFollows(before, after) ==
  IF after = "StudentDashboard" /\ before # "StudentDashboard"
    THEN /\ stats' = ZeroStats
         /\ dashLoading' = TRUE
         /\ dashFetch' = [pc |-> "lectures", lectures |-> <<>>]
  ELSE IF after # "StudentDashboard" /\ before = "StudentDashboard"
    THEN /\ stats' = ZeroStats
         /\ dashLoading' = TRUE
         /\ dashFetch' = DashFetchIdle
  ELSE UNCHANGED dashVars

\* handlePageChange: setCurrentPage(page); the lectureId is only logged
\* (the function exists in the renders that passed the three gates)
handlePageChange(page, id) ==
  /\ view \notin GateViews
  /\ currentPage' = page
  /\ view' = Render(authLoading, user, profileRole, page)
  /\ DashboardFollows(view, view')

\* AppLayout's onPageChange
onPageChange(page) ==
  /\ mounted = "Index"
  /\ handlePageChange(page, NoId)
  /\ toast' = NULL
  /\ UNCHANGED <<remoteVars, user, uploadVars, mounted, browserVars, viewerVars,
                 authLoading, profileRole, clickedLecture>>

\* the dashboard's buttons: onNavigate('lectures') and onNavigate('notes')
onNavigate(page) ==
  /\ mounted = "Index"
  /\ view = "StudentDashboard"
  /\ ~dashLoading
  /\ handlePageChange(page, NoId)
  /\ toast' = NULL
  /\ UNCHANGED <<remoteVars, user, uploadVars, mounted, browserVars, viewerVars,
                 authLoading, profileRole, clickedLecture>>

\* click on a row of 'Recently Added Lectures': onNavigate('lecture', lecture.id)
onNavigateLecture(id) ==
  /\ mounted = "Index"
  /\ view = "StudentDashboard"
  /\ ~dashLoading
  /\ \E k \in DOMAIN stats.recent_lectures : stats.recent_lectures[k].id = id
  /\ handlePageChange("lecture", id)
  /\ clickedLecture' = id
  /\ toast' = NULL
  /\ UNCHANGED <<remoteVars, user, uploadVars, mounted, browserVars, viewerVars,
                 authLoading, profileRole>>

\* useAuth() gives Index new values (sign-in, sign-out, the profile loaded,
\* a role chosen); a sign-in as another user follows a sign-out.  Index
\* renders again; currentPage is kept.
authChanged(loading, u, role) ==
  /\ mounted = "Index"
  /\ <<loading, u, role>> # <<authLoading, user, profileRole>>
  /\ u = user \/ u = NULL \/ user = NULL
  /\ authLoading' = loading
  /\ user' = u
  /\ profileRole' = role
  /\ view' = Render(loading, u, role, currentPage)
  /\ DashboardFollows(view, view')
  /\ toast' = NULL
  /\ UNCHANGED <<remoteVars, uploadVars, mounted, browserVars, viewerVars, currentPage,
                 clickedLecture>>

\* fetchStats resumes after the lectures query
fetchStats_lecturesReturned ==
  /\ mounted = "Index"
  /\ dashFetch.pc = "lectures"
  /\ \/ /\ dashFetch' = [pc |-> "notes", lectures |-> SelectPublished(lecturesTbl)]
        /\ UNCHANGED dashLoading
     \/ /\ dashFetch' = DashFetchIdle
        /\ dashLoading' = FALSE
  /\ toast' = NULL
  /\ UNCHANGED <<remoteVars, user, uploadVars, mounted, browserVars, viewerVars,
                 indexVars, stats, clickedLecture>>

\* fetchStats resumes after the student_notes query
fetchStats_notesReturned ==
  /\ mounted = "Index"
  /\ dashFetch.pc = "notes"
  /\ \/ stats' = [available_lectures |-> Len(dashFetch.lectures),
                  completed_notes |->
                    Cardinality({n \in notesTbl : n.student_id = user}),
                  recent_lectures |-> Slice(dashFetch.lectures, 5),
                  recommended_lectures |-> Slice(dashFetch.lectures, 3)]
     \/ UNCHANGED stats
  /\ dashFetch' = DashFetchIdle
  /\ dashLoading' = FALSE
  /\ toast' = NULL
  /\ UNCHANGED <<remoteVars, user, uploadVars, mounted, browserVars, viewerVars,
                 indexVars, clickedLecture>>

----------------------------------------------------------------------------
\* Specifications

\* the state of the components that are not mounted
BrowserUnmounted ==
  /\ lectures = <<>> /\ filteredLectures = <<>> /\ browserLoading = TRUE
  /\ searchTerm = <<>> /\ browserFetch = "idle"

ViewerUnmounted ==
  /\ lectureId = NoId /\ lecture = NoLecture /\ files = <<>> /\ viewerLoading = TRUE
  /\ viewerFetches = {} /\ viewerFetchCount = 0 /\ viewerErrors = {}

IndexUnmounted ==
  /\ authLoading = FALSE /\ view = NULL
  /\ profileRole = NULL /\ currentPage = "dashboard"
  /\ stats = ZeroStats /\ dashLoading = TRUE /\ dashFetch = DashFetchIdle

\* nothing is recording, recognising or awaiting the microphone
RecorderIdle ==
  /\ isRecording = FALSE /\ isListening = FALSE /\ recognition = "inactive"
  /\ startsPending = 0 /\ strayRecorders = 0 /\ stoppingRecorders = 0
  /\ chunksRef = <<>> /\ delivered = 0 /\ refStopPending = FALSE

FormUnmounted ==
  /\ version = "none"
  /\ title = <<>> /\ description = <<>> /\ uploadedFiles = <<>> /\ audioFile = NULL
  /\ audioBlob = NULL /\ audioUrl = NULL /\ transcript = <<>>
  /\ uploading = FALSE /\ uploadProgress = 0 /\ sub = SubIdle
  /\ RecorderIdle /\ recorder = "none" /\ hasRecognition = FALSE /\ recLog = <<>>

\* LectureBrowser as mounted: loading, and fetchLectures awaits its query
InitBrowser ==
  /\ mounted = "LectureBrowser"
  /\ user = "s1"
  /\ lectures = <<>> /\ filteredLectures = <<>> /\ browserLoading = TRUE
  /\ searchTerm = <<>> /\ browserFetch = "pending"
  /\ ViewerUnmounted /\ IndexUnmounted

\* LectureViewer as mounted with some lectureId: loading, and
\* fetchLectureData awaits its query
InitViewer ==
  /\ mounted = "LectureViewer"
  /\ user = "s1"
  /\ lectureId \in LectureIds
  /\ lecture = NoLecture /\ files = <<>> /\ viewerLoading = TRUE
  /\ viewerFetches = {[lectureId |-> lectureId, n |-> 1]}
  /\ viewerFetchCount = 1 /\ viewerErrors = {}
  /\ BrowserUnmounted /\ IndexUnmounted

\* Index for a signed-in user with a role, on its first page
InitIndex ==
  /\ mounted = "Index"
  /\ \E role \in {"teacher", "student"} :
       /\ profileRole = role
       /\ user = IF role = "teacher" THEN "t1" ELSE "s1"
       /\ dashFetch = IF role = "student" THEN [pc |-> "lectures", lectures |-> <<>>]
                                          ELSE DashFetchIdle
  /\ authLoading = FALSE
  /\ currentPage = "dashboard"
  /\ view = Render(authLoading, user, profileRole, currentPage)
  /\ stats = ZeroStats /\ dashLoading = TRUE
  /\ BrowserUnmounted /\ ViewerUnmounted

InitStudent ==
  /\ InitRemoteStudent
  /\ FormUnmounted /\ toast = NULL /\ clickedLecture = NoId
  /\ (InitBrowser \/ InitViewer \/ InitIndex)

NextStudent ==
  \/ fetchLectures_returned
  \/ \E term \in SearchInputs : setSearchTerm(term)
  \/ \E id \in LectureIds : handleLectureClick(id)
  \/ \E id \in LectureIds : lectureIdChanged(id)
  \/ \E f \in viewerFetches : fetchLectureData_returned(f)
  \/ \E page \in Pages : onPageChange(page)
  \/ \E page \in {"lectures", "notes"} : onNavigate(page)
  \/ \E id \in LectureIds : onNavigateLecture(id)
  \/ fetchStats_lecturesReturned
  \/ fetchStats_notesReturned

SpecStudent == InitStudent /\ [][NextStudent]_vars

\* a query that was issued comes back: each awaited promise is settled by the
\* backend client, with data or with an error
FetchReturns ==
  \/ fetchLectures_returned
  \/ \E f \in viewerFetches : fetchLectureData_returned(f)
  \/ fetchStats_lecturesReturned
  \/ fetchStats_notesReturned

SpecStudentFair == SpecStudent /\ WF_vars(FetchReturns)

\* the roles a profile can hold
Roles == {"teacher", "student", "admin"}

\* Index from its mount, while auth is still loading: auth answers and
\* changes at any time (sign-in, role, sign-out), and the user navigates
InitGates ==
  /\ lecturesTbl \in InitialTables
  /\ lectureFilesTbl = {} /\ notesTbl = {}
  /\ bucket = <<>> /\ uploadsInFlight = {} /\ calls = <<>>
  /\ FormUnmounted /\ toast = NULL /\ clickedLecture = NoId
  /\ mounted = "Index"
  /\ authLoading = TRUE /\ user = NULL /\ profileRole = NULL
  /\ currentPage = "dashboard"
  /\ view = Render(authLoading, user, profileRole, currentPage)
  /\ stats = ZeroStats /\ dashLoading = TRUE /\ dashFetch = DashFetchIdle
  /\ BrowserUnmounted /\ ViewerUnmounted

NextGates ==
  \/ \E loading \in BOOLEAN, u \in {NULL, "t1", "s1"}, role \in Roles \cup {NULL} :
       authChanged(loading, u, role)
  \/ \E page \in Pages : onPageChange(page)
  \/ \E page \in {"lectures", "notes"} : onNavigate(page)
  \/ \E id \in LectureIds : onNavigateLecture(id)
  \/ fetchStats_lecturesReturned
  \/ fetchStats_notesReturned

SpecGates == InitGates /\ [][NextGates]_vars

StudentUnmounted ==
  /\ clickedLecture = NoId
  /\ BrowserUnmounted /\ ViewerUnmounted /\ IndexUnmounted

InitRemoteEmpty ==
  /\ lecturesTbl = <<>>
  /\ lectureFilesTbl = {}
  /\ notesTbl = {}
  /\ bucket = <<>>
  /\ uploadsInFlight = {}
  /\ calls = <<>>

\* LectureUpload as mounted, after the teacher may have made a recording
\* (which sets audioBlob and audioUrl and, in the multi-file version, the
\* transcript)
InitForm(versions, transcripts) ==
  /\ mounted = "LectureUpload"
  /\ version \in versions
  /\ title = <<>>
  /\ description = <<>>
  /\ uploadedFiles = <<>>
  /\ audioFile = NULL
  /\ \E recorded \in BOOLEAN :
       /\ audioBlob = IF recorded THEN RecordedBlob ELSE NULL
       /\ audioUrl = IF recorded THEN "blob:rec" ELSE NULL
       /\ transcript \in IF recorded /\ version = "multi" THEN transcripts ELSE {<<>>}
       /\ recorder = IF recorded THEN "stopped" ELSE "none"
  /\ RecorderIdle
  /\ hasRecognition = (transcript # <<>>)
  /\ recLog = IF transcript = <<>> THEN <<>>
                ELSE <<[kind |-> "final", text |-> transcript]>>
  /\ uploading = FALSE
  /\ uploadProgress = 0
  /\ sub = SubIdle
  /\ toast = NULL

\* The multi-file form with the teacher selecting and removing files at any
\* time, also while a submit runs; the only text typed is a title.
InitUpload ==
  /\ InitRemoteEmpty /\ StudentUnmounted
  /\ user = "t1"
  /\ InitForm({"multi"}, {<<>>})

NextUpload ==
  \/ setTitle(<<" ", "a", " ">>)
  \/ \E fileList \in FileSelections : handleFileUpload(fileList)
  \/ \E index \in 1..MaxFiles + 1 : removeFile(index)
  \/ handleSubmit
  \/ handleSubmit_insertReturned
  \/ handleSubmit_uploadReturned
  \/ handleSubmit_updateReturned
  \/ handleSubmit_finally

SpecUpload == InitUpload /\ [][NextUpload]_vars

\* Both versions of the form with the teacher typing titles and descriptions
\* at any time; the content is a recording or, in the audio-only version, a
\* selected file.
InitForms ==
  /\ InitRemoteEmpty /\ StudentUnmounted
  /\ user \in Users
  /\ InitForm({"multi", "audio"}, {<<>>, <<"a", " ">>})

NextForms ==
  \/ \E t \in TextInputs : setTitle(t)
  \/ \E d \in TextInputs : setDescription(d)
  \/ handleSubmit
  \/ handleSubmit_insertReturned
  \/ handleSubmit_uploadReturned
  \/ handleSubmit_updateReturned
  \/ handleSubmit_finally
  \/ \E file \in AudioSelections : handleFileUploadAudio(file)
  \/ handleSubmitAudio
  \/ handleSubmitAudio_insertReturned
  \/ handleSubmitAudio_finally

SpecForms == InitForms /\ [][NextForms]_vars

\* every remote call of a submit returns, and the handler runs on to the end
\* of its finally block
SubmitReturns ==
  \/ handleSubmit_insertReturned
  \/ handleSubmit_uploadReturned
  \/ handleSubmit_updateReturned
  \/ handleSubmit_finally
  \/ handleSubmitAudio_insertReturned
  \/ handleSubmitAudio_finally

SpecFormsFair == SpecForms /\ WF_vars(SubmitReturns)

\* The multi-file form with the teacher recording: the microphone, the
\* MediaRecorder and the recognition session answer at any time, and the
\* teacher may click 'Start Recording' again while the microphone is awaited.
InitRecord ==
  /\ InitRemoteEmpty /\ StudentUnmounted
  /\ user = "t1"
  /\ mounted = "LectureUpload" /\ version = "multi"
  /\ title = <<>> /\ description = <<>> /\ uploadedFiles = <<>> /\ audioFile = NULL
  /\ audioBlob = NULL /\ audioUrl = NULL /\ transcript = <<>>
  /\ RecorderIdle /\ recorder = "none" /\ recLog = <<>>
  /\ hasRecognition \in BOOLEAN
  /\ uploading = FALSE /\ uploadProgress = 0 /\ sub = SubIdle
  /\ toast = NULL

NextRecord ==
  \/ startRecording
  \/ startRecording_resolved
  \/ stopRecording
  \/ mediaRecorder_onstop
  \/ \E results \in ResultEvents : recognition_onresult(results)
  \/ recognition_onerror
  \/ recognition_onend

SpecRecord == InitRecord /\ [][NextRecord]_vars

\* The recorders of the multi-file form in a browser without speech
\* recognition: every MediaRecorder delivers its data, empty or not, at any
\* time while it records and once more after it was stopped.
InitChunks == InitRecord /\ ~hasRecognition

NextChunks ==
  \/ startRecording
  \/ startRecording_resolved
  \/ stopRecording
  \/ mediaRecorder_onstop
  \/ \E own \in BOOLEAN, size \in {0, 1} : mediaRecorder_ondataavailable(own, size)

SpecChunks == InitChunks /\ [][NextChunks]_vars

\* The multi-file form of a browser with speech recognition: the teacher
\* records (one MediaRecorder at a time: 'Start Recording' is clicked once,
\* and after the onstop of the recording before), types a title and submits,
\* each at any time, also while a recording or a submit runs.
InitTranscript == InitRecord /\ hasRecognition

NextTranscript ==
  \/ (startsPending = 0 /\ stoppingRecorders = 0 /\ startRecording)
  \/ startRecording_resolved
  \/ stopRecording
  \/ mediaRecorder_onstop
  \/ \E results \in ResultEvents : recognition_onresult(results)
  \/ recognition_onerror
  \/ recognition_onend
  \/ setTitle(<<" ", "a", " ">>)
  \/ handleSubmit
  \/ handleSubmit_insertReturned
  \/ handleSubmit_uploadReturned
  \/ handleSubmit_updateReturned
  \/ handleSubmit_finally

SpecTranscript == InitTranscript /\ [][NextTranscript]_vars

----------------------------------------------------------------------------
\* Claims about LectureUpload.handleSubmit, checked under SpecUpload

SuccessShown == sub.pc = "finally" /\ toast = "Lecture uploaded successfully!"
FailureShown == sub.pc = "finally" /\ toast = "Upload failed"

\* the files of the running submit: the recording and the selected files the
\* form held when the submit started
SubmitFiles == FileUploads(sub.audioBlob, sub.uploadedFiles)

UploadedOk(k, file) ==
  /\ ObjectPath(sub.lectureId, k, file) \in Range(bucket)
  /\ \E c \in Range(calls) : c.op = "upload" /\ c.i = k /\ c.file = file /\ c.res = "ok"

AllFilesUploaded ==
  /\ \A k \in 1..Len(SubmitFiles) : UploadedOk(k - 1, SubmitFiles[k])
  /\ \A c \in Range(calls) : c.op = "upload" => c.res = "ok"

\* C2: when the multi-file handleSubmit shows 'Lecture uploaded
\* successfully!', a lecture row has been inserted and every file of the
\* submit (the recording if there was one, and every file selected when the
\* submit started) is in the bucket, uploaded without error.
C2_SuccessMeansAllUploaded ==
  (version = "multi" /\ SuccessShown) =>
    /\ sub.lectureId \in DOMAIN lecturesTbl
    /\ lecturesTbl[sub.lectureId].id = sub.lectureId
    /\ AllFilesUploaded

C2_Witness ==
  /\ version = "multi" /\ SuccessShown
  /\ sub.audioBlob # NULL /\ Len(sub.uploadedFiles) = 2

\* C3: the uploads of one submit are sequential: at most one is in flight,
\* the upload of a file is in flight only after all files before it were
\* uploaded without error, the calls are the insert followed by the uploads
\* of the recording (if any) and the selected files in order, and an upload
\* is issued only after the insert returned a row.
C3_SequentialUploads ==
  (version = "multi" /\ sub.pc # "idle") =>
    /\ Cardinality(uploadsInFlight) <= 1
    /\ \A k \in uploadsInFlight :
         \A j \in 0..(k - 1) : UploadedOk(j, SubmitFiles[j + 1])
    /\ \A n \in DOMAIN calls :
         calls[n].op = "upload" =>
           /\ calls[1].op = "insert" /\ calls[1].res = "ok"
           /\ sub.lectureId \in DOMAIN lecturesTbl
           /\ n = calls[n].i + 2
           /\ calls[n].i + 1 \in DOMAIN SubmitFiles
           /\ calls[n].file = SubmitFiles[calls[n].i + 1]

C3_Witness ==
  /\ version = "multi" /\ sub.pc = "upload"
  /\ sub.audioBlob # NULL /\ sub.uploadedFiles = <<"f2", "f1">>
  /\ uploadsInFlight = {2}

\* C4: no retry: within one submit the insert and each upload are issued at
\* most once; an insert or upload that returned an error is the last call of
\* the submit (no further upload, no audio_url update), nothing is left in
\* flight, and the submit ends with the 'Upload failed' toast.
C4_NoRetry ==
  (version = "multi") =>
    /\ \A a, b \in DOMAIN calls :
         (calls[a].op = calls[b].op /\ calls[a].i = calls[b].i) => a = b
    /\ \A a \in DOMAIN calls :
         (calls[a].op \in {"insert", "upload"} /\ calls[a].res = "error") =>
           /\ a = Len(calls)
           /\ uploadsInFlight = {}
           /\ sub.pc \in {"finally", "idle"}
           /\ sub.pc = "finally" => toast = "Upload failed"
    /\ FailureShown =>
         \E a \in DOMAIN calls : calls[a].op \in {"insert", "upload"}
                                   /\ calls[a].res = "error"

C4_Witness ==
  /\ version = "multi" /\ FailureShown
  /\ Len(SubmitFiles) = 3
  /\ Len(calls) = 3 /\ calls[3].op = "upload" /\ calls[3].res = "error"

ProgressValues ==
  /\ 0 <= uploadProgress /\ uploadProgress <= Percent(100)
  /\ sub.pc = "insert" => uploadProgress = 0
  /\ sub.pc = "upload" =>
       \* 30 + 60 * i / n after i of the n files
       uploadProgress * Len(sub.fileUploads)
         = Percent(30) * Len(sub.fileUploads) + 60 * sub.i * ProgressScale
  /\ sub.pc = "update" => uploadProgress = Percent(90)
  /\ uploadProgress = Percent(100) =>
       /\ sub.pc = "finally"
       /\ AllFilesUploaded
       /\ \E c \in Range(calls) : c.op = "update" /\ c.res # "pending"

\* C5: while uploading is true, uploadProgress is within 0..100 and never
\* decreases; it is 0 at the start, 30 once the row is created, 30 + 60*i/n
\* after i of the n files are uploaded, and 100 only after every file was
\* uploaded and the audio_url update was issued.
C5_Progress ==
  /\ []((version = "multi" /\ uploading) => ProgressValues)
  /\ [][(version = "multi" /\ uploading /\ uploading')
          => uploadProgress' >= uploadProgress]_vars

C5_Witness ==
  /\ version = "multi" /\ uploading /\ sub.pc = "upload"
  /\ Len(sub.fileUploads) = 3 /\ sub.i = 2 /\ uploadProgress = Percent(70)

NewRowAsSubmitted ==
  Len(lecturesTbl') > Len(lecturesTbl) =>
    LET row == lecturesTbl'[Len(lecturesTbl')]
    IN /\ Len(lecturesTbl') = Len(lecturesTbl) + 1
       /\ row.status = "draft"
       /\ row.teacher_id = user
       /\ row.title # <<>> /\ row.title = Trim(sub.title)
       /\ row.description = IF Trim(sub.description) = <<>> THEN NullText
                            ELSE Trim(sub.description)

NoRowPublished ==
  \A k \in DOMAIN lecturesTbl' :
    lecturesTbl'[k].status = "published" =>
      (k \in DOMAIN lecturesTbl /\ lecturesTbl[k].status = "published")

\* C6: every row inserted by handleSubmit (either version) has status
\* 'draft', the current user's id as teacher_id and the non-empty trimmed
\* title; a blank description is stored as null; no step of the upload forms
\* gives a row the status 'published'.
C6_InsertedRows == [][NewRowAsSubmitted /\ NoRowPublished]_vars

C6_Witness ==
  /\ Len(lecturesTbl) = 1
  /\ sub.pc = "finally" /\ sub.description = <<" ">>
  /\ lecturesTbl[1].description = NullText /\ lecturesTbl[1].status = "draft"

----------------------------------------------------------------------------
\* Claims about the student pages

\* C1: every lecture in LectureBrowser's `lectures` and `filteredLectures` has
\* status 'published' and is a row of the remote table; no row whose remote
\* status is something else is in either list.
C1_OnlyPublishedListed ==
  \A row \in Range(lectures) \cup Range(filteredLectures) :
    /\ row.status = "published"
    /\ row \in Range(lecturesTbl)

C1_Witness ==
  /\ mounted = "LectureBrowser"
  /\ Len(lecturesTbl) = 2 /\ lecturesTbl[2].status = "draft"
  /\ Len(lectures) = 1
  /\ searchTerm = <<"a">> /\ Len(filteredLectures) = 1

StudentPage ==
  \/ mounted \in {"LectureBrowser", "LectureViewer"}
  \/ (mounted = "Index" /\ profileRole = "student")

\* C7: no step of StudentDashboard, LectureBrowser or LectureViewer (the
\* fetches after mount, search input, lecture click, navigation, prop change)
\* inserts, updates or deletes a remote row or uploads an object: the tables
\* and the bucket are left as they are.
C7_StudentPagesReadOnly ==
  [][StudentPage => UNCHANGED <<lecturesTbl, lectureFilesTbl, notesTbl, bucket,
                                uploadsInFlight>>]_vars

C7_Witness ==
  /\ mounted = "LectureBrowser"
  /\ clickedLecture = 1 /\ searchTerm = <<"B">>
  /\ Len(lecturesTbl) = 2

\* the component on screen, and the lecture it is about
Displayed ==
  IF mounted = "Index" THEN renderPageContent(profileRole, currentPage) ELSE mounted
DisplayedLecture == IF Displayed = "LectureViewer" THEN lectureId ELSE NoId

\* C8: after a student clicked a lecture in the dashboard's recent list or a
\* card in LectureBrowser, the application eventually displays LectureViewer
\* for that lecture id.
C8_ClickedLectureViewed ==
  \A id \in LectureIds :
    (clickedLecture = id) ~> (Displayed = "LectureViewer" /\ DisplayedLecture = id)

\* the lecture_files rows of a lecture
FilesOf(id) == {r \in lectureFilesTbl : r.lecture_id = id}

\* C9: after fetchLectureData succeeded for a published lecture, `files` holds
\* the lecture's lecture_files rows, so 'Lecture Files' is rendered when there
\* are any, and 'No content available' only when the lecture has neither
\* files nor audio.
C9_ViewerShowsFiles ==
  (mounted = "LectureViewer" /\ ViewerView = "lecture") =>
    /\ Range(files) = FilesOf(lecture.id)
    /\ FilesOf(lecture.id) # {} => ShowsFiles
    /\ ShowsNoContent => (FilesOf(lecture.id) = {} /\ lecture.audio_url = NullText)

\* a step in which `lecture` is set takes it from the answer to a pending
\* fetch: a published row of the table with the id that fetch asked for
LectureSetFromRequestedRow ==
  lecture' # lecture =>
    \E f \in viewerFetches \ viewerFetches' :
      /\ lecture'.id = f.lectureId
      /\ lecture'.status = "published"
      /\ lecture' \in Range(lecturesTbl)

FirstFetchFails == 1 \notin viewerErrors /\ 1 \in viewerErrors'

\* C10: `lecture` is only set from a published row with the
\* requested id, and when the first fetch after mount returns an error,
\* `lecture` is null, the error toast is shown and 'Lecture Not Found' is
\* rendered.
C10_FailedFetchShowsNotFound ==
  [][/\ LectureSetFromRequestedRow
     /\ FirstFetchFails =>
          /\ lecture' = NoLecture
          /\ toast' = "Error"
          /\ ~viewerLoading'
          /\ ViewerView' = "Lecture Not Found"]_vars

----------------------------------------------------------------------------
\* Claims about recording and speech recognition

\* a startRecording that reached its 'Recording started' toast
StartSucceeds == startsPending' < startsPending /\ toast' = "Recording started"
\* a stopRecording
StopStep == isRecording /\ ~isRecording'

StartStartsBoth ==
  (StartSucceeds /\ hasRecognition) =>
    (recorder' = "recording" /\ recognition' = "active" /\ isListening')

StopStopsBoth ==
  StopStep =>
    /\ recorder' # "recording" /\ strayRecorders' = 0
    /\ recognition' # "active" /\ ~isListening'

OnlyStartListens ==
  (isListening' # isListening /\ ~StartSucceeds) => ~isListening'

\* C11: when startRecording succeeds and the browser has speech recognition,
\* a recognition session is started with the MediaRecorder and isListening
\* becomes true; after stopRecording no MediaRecorder records and no
\* recognition session listens; isListening implies isRecording in every
\* state; every other step that changes isListening sets it to false.
C11_SpeechWithRecording ==
  /\ [](isListening => isRecording)
  /\ [][StartStartsBoth /\ StopStopsBoth /\ OnlyStartListens]_vars

\* the texts of log entries, concatenated in order
RECURSIVE ConcatTexts(_)
ConcatTexts(log) ==
  IF log = <<>> THEN <<>> ELSE Head(log).text \o ConcatTexts(Tail(log))

\* the entries after the last form reset
RECURSIVE SinceReset(_)
SinceReset(log) ==
  IF log = <<>> THEN <<>>
  ELSE IF log[Len(log)].kind = "reset" THEN <<>>
  ELSE Append(SinceReset(SubSeq(log, 1, Len(log) - 1)), log[Len(log)])

\* an inserted row holds the transcript of the submit, trimmed, or null
RowTranscript ==
  Len(lecturesTbl') > Len(lecturesTbl) =>
    lecturesTbl'[Len(lecturesTbl')].transcript =
      (IF Trim(sub.transcript) = <<>> THEN NullText ELSE Trim(sub.transcript))

\* C12: `transcript` always equals the concatenation, in arrival order, of
\* the final results (each followed by one space) received since the most
\* recent successful startRecording; the value written to the lecture row is
\* that transcript trimmed, or null when empty.
C12_TranscriptSinceStart ==
  /\ [](transcript = ConcatTexts(Finals(recLog)))
  /\ [][RowTranscript]_vars

\* C12, amended: `transcript` always equals the concatenation, in arrival
\* order, of the final results (each followed by one space) received since
\* it was last cleared, by the most recent successful startRecording or by
\* the form reset of a successful submit; interim results are never
\* appended; the value written to the lecture row is the transcript the form
\* held when the submit started, trimmed, or null when empty.
C12_TranscriptSinceCleared ==
  /\ [](transcript = ConcatTexts(SinceReset(recLog)))
  /\ [][RowTranscript]_vars

C12_Witness ==
  /\ Len(lecturesTbl) = 1 /\ lecturesTbl[1].transcript = <<"a">>
  /\ Len(recLog) = 3 /\ recLog[2].kind = "reset"
  /\ transcript = <<"a", " ">>

----------------------------------------------------------------------------
\* Claims about Index

GatesInOrder ==
  /\ authLoading => view = "Spinner"
  /\ (~authLoading /\ user = NULL) => view = "AuthForm"
  /\ (~authLoading /\ user # NULL /\ profileRole = NULL) => view = "RoleSelection"
  /\ view \notin GateViews => (~authLoading /\ user # NULL /\ profileRole # NULL)

\* C13: Index renders only the spinner while auth is loading, else only
\* AuthForm without a user, else only RoleSelection without a role; a page
\* inside AppLayout is rendered only when loading is false, a user exists
\* and the profile has a role; a navigation happens only past the gates and
\* leaves the gates as they are.
C13_GatesBeforePages ==
  /\ [](mounted = "Index" => GatesInOrder)
  /\ [][currentPage' # currentPage =>
          (view \notin GateViews /\ view' \notin GateViews /\ GatesInOrder')]_vars

C13_Witness ==
  /\ mounted = "Index" /\ view = "RoleSelection"
  /\ currentPage = "upload" /\ user = "t1" /\ profileRole = NULL

\* the page names renderPageContent has a case for
KnownPages(role) ==
  IF role = "teacher" THEN {"upload", "lectures", "settings"}
  ELSE {"lectures", "notes", "settings"}

\* C14: Index renders LectureUpload only for the role 'teacher' on the page
\* 'upload'; for any other role neither LectureUpload nor TeacherDashboard
\* is rendered, whatever currentPage holds; a page value without a case
\* renders the role's dashboard.
C14_UploadOnlyForTeachers ==
  mounted = "Index" =>
    /\ view = "LectureUpload" => (profileRole = "teacher" /\ currentPage = "upload")
    /\ profileRole # "teacher" => view \notin {"LectureUpload", "TeacherDashboard"}
    /\ (view \notin GateViews /\ currentPage \notin KnownPages(profileRole)) =>
         view = IF profileRole = "teacher" THEN "TeacherDashboard"
                ELSE "StudentDashboard"

C14_Witness ==
  /\ mounted = "Index" /\ profileRole = "student" /\ user = "s1"
  /\ currentPage = "upload" /\ view = "StudentDashboard"

----------------------------------------------------------------------------
\* Claims about the submit of both LectureUpload versions

\* C15: when the audio-only handleSubmit shows 'Lecture uploaded
\* successfully!', the recorded or selected audio is an object of the bucket
\* and the lecture row's audio_url refers to it.
C15_AudioUploadedOnSuccess ==
  (version = "audio" /\ SuccessShown) =>
    /\ sub.lectureId \in DOMAIN lecturesTbl
    /\ \E path \in Range(bucket) :
         /\ path[1] = sub.lectureId
         /\ lecturesTbl[sub.lectureId].audio_url = PublicUrl(path)

\* the toasts of a failed validation
ValidationToasts == {"Title required", "Content required", "Audio required"}

\* the form holds something to submit: a selected file or a recording
HasContent ==
  IF version = "multi"
    THEN uploadedFiles # <<>> \/ audioBlob # NULL
    ELSE audioFile # NULL \/ audioBlob # NULL

\* C16: in both versions a handleSubmit whose validation fails (title empty
\* after trimming, or nothing to submit) only shows a destructive toast: no
\* remote call, no row, no object, uploading, uploadProgress and the form
\* unchanged; and a submit that issues the insert passed the validation.
C16_FailedValidationNoEffect ==
  [][/\ toast' \in ValidationToasts =>
          /\ Trim(title) = <<>> \/ ~HasContent
          /\ UNCHANGED <<remoteVars, uploading, uploadProgress, formVars, sub>>
     /\ (sub.pc = "idle" /\ sub'.pc = "insert") =>
          (Trim(title) # <<>> /\ HasContent)]_vars

C16_Witness ==
  /\ toast \in {"Content required", "Audio required"}
  /\ Trim(title) # <<>> /\ title # Trim(title)
  /\ ~uploading /\ uploadProgress = 0 /\ sub.pc = "idle"
  /\ lecturesTbl = <<>> /\ calls = <<>>

\* the two toasts that end a submit
EndToasts == {"Lecture uploaded successfully!", "Upload failed"}

\* C17: every handleSubmit that passed validation ends with uploading false
\* and uploadProgress 0, provided each remote call returns; the step that
\* leaves the try block shows exactly one of the success toast and 'Upload
\* failed', no other step of the submit shows either, and the finally block
\* sets uploading false and uploadProgress 0.
C17_SubmitEnds ==
  /\ (sub.pc = "insert") ~> (sub.pc = "idle" /\ ~uploading /\ uploadProgress = 0)
  /\ [][/\ (sub.pc # "finally" /\ sub'.pc = "finally") => toast' \in EndToasts
        /\ (sub.pc \notin {"idle", "finally"} /\ sub'.pc # "finally") =>
             toast' \notin EndToasts
        /\ (sub.pc = "idle" /\ sub'.pc # "idle") => toast' \notin EndToasts
        /\ (sub.pc = "finally" /\ sub'.pc # "finally") =>
             (sub'.pc = "idle" /\ ~uploading' /\ uploadProgress' = 0)]_vars

\* a submit whose insert returned a row and whose upload failed has ended
C17_Witness ==
  /\ sub.pc = "idle" /\ ~uploading /\ uploadProgress = 0
  /\ version = "multi" /\ lecturesTbl # <<>> /\ bucket = <<>>

\* the fields of the multi-file form
formFields == <<title, description, transcript, uploadedFiles, audioBlob, audioUrl>>

\* C18: in the multi-file version the step of handleSubmit that shows the
\* success toast leaves title, description and transcript empty,
\* uploadedFiles empty and audioBlob and audioUrl null; every other step of
\* handleSubmit, the one showing 'Upload failed' included, leaves these
\* fields as they are.
C18_ClearedOnlyOnSuccess ==
  [][version = "multi" =>
       /\ (sub' # sub /\ toast' = "Lecture uploaded successfully!") =>
            /\ title' = <<>> /\ description' = <<>> /\ transcript' = <<>>
            /\ uploadedFiles' = <<>> /\ audioBlob' = NULL /\ audioUrl' = NULL
       /\ (sub' # sub /\ toast' # "Lecture uploaded successfully!") =>
            UNCHANGED formFields]_vars

\* a failed submit has left a filled form as it was
C18_Witness ==
  /\ version = "multi" /\ FailureShown
  /\ title # <<>> /\ description # <<>> /\ transcript # <<>> /\ audioBlob # NULL
  /\ title = sub.title /\ description = sub.description

\* C19: when the multi-file handleSubmit shows the success toast and at
\* least one file was uploaded, the lecture row's audio_url is the public URL
\* of the first file uploaded (the recording if there is one, otherwise the
\* first selected file).
C19_AudioUrlIsFirstUpload ==
  (version = "multi" /\ SuccessShown /\ SubmitFiles # <<>>) =>
    /\ sub.lectureId \in DOMAIN lecturesTbl
    /\ lecturesTbl[sub.lectureId].audio_url =
         PublicUrl(ObjectPath(sub.lectureId, 0, SubmitFiles[1]))

\* C20: when the multi-file handleSubmit shows 'Upload failed', nothing of
\* that submit remains: no row inserted by it is in `lectures`, and no object
\* uploaded by it is in the bucket.
C20_FailedSubmitLeavesNothing ==
  (version = "multi" /\ FailureShown) =>
    /\ sub.lectureId \notin DOMAIN lecturesTbl
    /\ \A path \in Range(bucket) : path[1] # sub.lectureId

\* C21: whenever the multi-file handleSubmit shows the success toast for a
\* submit with at least one file, the update of audio_url has succeeded: the
\* stored row's audio_url is not null.
C21_SuccessMeansUrlStored ==
  (version = "multi" /\ SuccessShown /\ SubmitFiles # <<>>) =>
    /\ \E c \in Range(calls) : c.op = "update" /\ c.res = "ok"
    /\ sub.lectureId \in DOMAIN lecturesTbl
    /\ lecturesTbl[sub.lectureId].audio_url # NullText

\* how often a file is in a list of files
Count(f, fileList) == Cardinality({k \in DOMAIN fileList : fileList[k] = f})

\* C22: no selected file is silently lost: a step takes a file out of
\* uploadedFiles only when the teacher removes it (removeFile, one file, no
\* step of a submit) or when a submit reports success, and a submit that
\* reports success has uploaded every file uploadedFiles holds at that
\* moment, the files added while uploading was true included.
C22_NoSelectedFileLost ==
  [][version = "multi" =>
       \A f \in FileNames :
         Count(f, uploadedFiles') < Count(f, uploadedFiles) =>
           \/ /\ sub' = sub
              /\ Len(uploadedFiles') = Len(uploadedFiles) - 1
           \/ /\ toast' = "Lecture uploaded successfully!"
              /\ Count(f, uploadedFiles) <= Count(f, sub.uploadedFiles)
              /\ \A k \in 1..Len(SubmitFiles) : UploadedOk(k - 1, SubmitFiles[k])]_vars

----------------------------------------------------------------------------
\* Claims about the recorders of LectureUpload

\* the MediaRecorders that are recording, each holding a microphone stream
LiveRecorders == strayRecorders + (IF recorder = "recording" THEN 1 ELSE 0)

\* C23: microphone streams are not leaked: at most one MediaRecorder started
\* by startRecording is recording at a time, and once the teacher has
\* stopped recording (isRecording false, no getUserMedia awaited) none is
\* recording any more, so that every stream is released by its onstop.
C23_NoStreamLeaked ==
  /\ LiveRecorders <= 1
  /\ (~isRecording /\ startsPending = 0) => LiveRecorders = 0

\* C24: startRecording fails cleanly: the step of a startRecording call that
\* shows 'Recording failed' leaves isRecording and isListening as they were
\* and starts no MediaRecorder.
C24_StartFailsCleanly ==
  [][(startsPending' < startsPending /\ toast' = "Recording failed") =>
       UNCHANGED <<isRecording, isListening, recorder, strayRecorders>>]_vars

\* C25: the blob an onstop builds is chunksRef.current at that moment.  For
\* the recorder the ref holds it must be exactly the non-empty chunks that
\* recorder delivered, in order; for a recorder the ref held before it must
\* hold no chunk of the recorder that replaced it.
C25_BlobMatchesRecording ==
  [][stoppingRecorders' < stoppingRecorders =>
       IF refStopPending /\ ~refStopPending'
         THEN chunksRef = [k \in 1..delivered |-> "ref"]
         ELSE \A k \in DOMAIN chunksRef : chunksRef[k] # "ref"]_vars

----------------------------------------------------------------------------
\* Claims about the student pages' fetches

\* C26: whenever LectureViewer shows a lecture (loading false, lecture not
\* null), that lecture is the one the lectureId prop names.
C26_ViewerShowsRequestedLecture ==
  (mounted = "LectureViewer" /\ ViewerView = "lecture") => lecture.id = lectureId

\* a text without any character but blanks
IsBlank(str) == \A k \in DOMAIN str : str[k] = " "

\* part occurs in str when letters are compared without their case
ContainsNoCase(str, part) ==
  \E i \in 1..(Len(str) - Len(part) + 1) :
    \A j \in 1..Len(part) : LowerChar(str[i + j - 1]) = LowerChar(part[j])

\* the row was found by a search for term
Found(row, term) ==
  \/ ContainsNoCase(row.title, term)
  \/ (row.description # NullText /\ ContainsNoCase(row.description, term))

RECURSIVE IsSubsequence(_, _)
IsSubsequence(part, whole) ==
  IF part = <<>> THEN TRUE
  ELSE IF whole = <<>> THEN FALSE
  ELSE IF Head(part) = Head(whole) THEN IsSubsequence(Tail(part), Tail(whole))
  ELSE IsSubsequence(part, Tail(whole))

\* C27: in LectureBrowser filteredLectures is lectures when searchTerm is
\* empty or blank, and otherwise the rows of lectures, in their order (newest
\* first), whose title or non-null description contains searchTerm without
\* regard to case; it is always a subsequence of lectures.
C27_SearchFilter ==
  mounted = "LectureBrowser" =>
    /\ filteredLectures =
         IF IsBlank(searchTerm) THEN lectures
         ELSE SelectSeq(lectures, LAMBDA row : Found(row, searchTerm))
    /\ IsSubsequence(filteredLectures, lectures)
    /\ lectures = SelectPublished(lecturesTbl) \/ lectures = <<>>

\* a search in other case than the title's finds one of two lectures
C27_Witness ==
  /\ mounted = "LectureBrowser" /\ ~browserLoading
  /\ searchTerm = <<"B">>
  /\ Len(lectures) = 2 /\ lectures[1].title = <<"A">>
  /\ Len(filteredLectures) = 1 /\ filteredLectures[1].title = <<"b">>

\* the 'No lectures available yet' card of StudentDashboard
NoLecturesCard == stats.available_lectures = 0

\* C28: when fetchStats ends after its lectures query returned rows (loading
\* becomes false), stats.available_lectures is the number of the rows
\* returned, recent_lectures their first 5 and recommended_lectures their
\* first 3, completed_notes the number of the user's student_notes rows,
\* and the 'No lectures available yet' card is shown only when no row was
\* returned.
C28_StatsReflectLectures ==
  [][(dashFetch.pc = "notes" /\ ~dashLoading') =>
       /\ stats'.available_lectures = Len(dashFetch.lectures)
       /\ stats'.recent_lectures = Slice(dashFetch.lectures, 5)
       /\ stats'.recommended_lectures = Slice(dashFetch.lectures, 3)
       /\ stats'.completed_notes = Cardinality({n \in notesTbl : n.student_id = user})
       /\ NoLecturesCard' => dashFetch.lectures = <<>>]_vars

\* the statistics fetchStats sets from the rows of its two queries
StatsOf(rows) ==
  [available_lectures |-> Len(rows),
   completed_notes |-> Cardinality({n \in notesTbl : n.student_id = user}),
   recent_lectures |-> Slice(rows, 5),
   recommended_lectures |-> Slice(rows, 3)]

\* C29: each page that fetches on mount leaves its loading skeleton once its
\* queries have returned, with data or with an error: LectureBrowser,
\* LectureViewer and StudentDashboard (while it stays mounted) reach loading
\* false; a failed fetchLectures leaves lectures empty and a failed
\* fetchStats leaves stats at their initial zeros.
C29_LoadingEnds ==
  /\ (mounted = "LectureBrowser" /\ browserLoading) ~> ~browserLoading
  /\ (mounted = "LectureViewer" /\ viewerLoading) ~> ~viewerLoading
  /\ (view = "StudentDashboard" /\ dashLoading)
       ~> (~dashLoading \/ view # "StudentDashboard")
  /\ [][/\ (browserFetch = "pending" /\ browserFetch' = "idle") =>
             /\ ~browserLoading'
             /\ toast' = "Error" => (lectures' = <<>> /\ filteredLectures' = <<>>)
        /\ (dashFetch.pc # "idle" /\ dashFetch'.pc = "idle" /\ view' = view) =>
             /\ ~dashLoading'
             /\ stats' = ZeroStats \/ stats' = StatsOf(dashFetch.lectures)
             /\ dashFetch.pc = "lectures" => stats' = ZeroStats]_vars

\* LectureBrowser has left its skeleton after a failed query, with no lecture
\* listed although a published one exists
C29_Witness ==
  /\ mounted = "LectureBrowser" /\ ~browserLoading /\ toast = "Error"
  /\ lectures = <<>> /\ SelectPublished(lecturesTbl) # <<>>

====
